---- MODULE Spec2Model ----
(***************************************************************************)
(* A model of the CircleCI mac runner: circlerunner.py (CircleRunner: the  *)
(* file trust check, load_config, run_shell_script) and macrunner.py       *)
(* (MacCircleRunner: sign, upload_file_to_s3, do_the_job, teardown, and    *)
(* the try/finally of __main__).                                           *)
(*                                                                         *)
(* The program is sequential.  The state is the position of __main__ (pc), *)
(* the exception in flight (exc), os.environ (environ), the file system    *)
(* the program observes (fs), the inputs (job_name, job_params, conf) and  *)
(* a history of what the program did (trace).                              *)
(***************************************************************************)
EXTENDS Integers, Sequences, FiniteSets, TLC

VARIABLES
  pc,         \* position of __main__
  ms,         \* TRUE once `ms = MacCircleRunner()` has been bound
  exc,        \* the exception in flight / reported to the caller
  body_exc,   \* history: the exception do_the_job ended with
  environ,    \* os.environ
  child_env,  \* history: the env= of the last subprocess.run
  fs,         \* path -> attributes of the file there
  conf,       \* parsed content of the ini file at secret_file_path
  job_name,   \* job_params.get('JOB_NAME')
  job_params, \* the json blob of argv
  files,      \* the glob matches do_the_job still has to upload
  uploaded,   \* history: the uploads done, as <<Filename, Key>>
  trace,      \* history: what the program did, in order
  vin,        \* validation harness: the path and file under test
  vout        \* validation harness: what security_validation did

vars == <<pc, ms, exc, body_exc, environ, child_env, fs, conf, job_name,
          job_params, files, uploaded, trace, vin, vout>>

(***************************************************************************)
(* Values                                                                  *)
(***************************************************************************)

\* Python's None, where a str is expected
None == "<None>"

\* an entry of the history
Ev(op, a, b) == [op |-> op, a |-> a, b |-> b]

\* an exception: its class, its message and the value the message names
Exc(type, msg, arg) == [type |-> type, msg |-> msg, arg |-> arg]
NoExc == Exc("", "", "")

\* bounds of the model
MaxBad == 2
MaxPerm == 4095
MaxExit == 1

(***************************************************************************)
(* The file system as os.stat, os.path.isfile and pwd.getpwuid see it      *)
(***************************************************************************)

\* the file-type bits of st_mode
S_IFREG == 32768
S_IFDIR == 16384

\* the password database: uid -> pw_name (a uid outside it has no entry)
Passwd == (0 :> "root") @@ (501 :> "circleci")

Missing == [kind |-> "none", uid |-> 0, perm |-> 0]

Stat(fsys, path) == IF path \in DOMAIN fsys THEN fsys[path] ELSE Missing

IsFile(fsys, path) == Stat(fsys, path).kind = "file"

StMode(a) == (IF a.kind = "file" THEN S_IFREG ELSE S_IFDIR) + a.perm

\* the character of an octal digit
OctChar(d) == <<"0", "1", "2", "3", "4", "5", "6", "7">>[d + 1]

RECURSIVE OctDigits(_)
OctDigits(n) ==
  IF n < 8 THEN <<OctChar(n)>>
  ELSE Append(OctDigits(n \div 8), OctChar(n % 8))

\* oct(n): '0o' and the octal digits
Oct(n) == <<"0", "o">> \o OctDigits(n)

\* str.endswith
EndsWith(s, suffix) ==
  /\ Len(s) >= Len(suffix)
  /\ SubSeq(s, Len(s) - Len(suffix) + 1, Len(s)) = suffix

\* may the owner execute the file (what execve asks of root too: an x bit)
OwnerExec(a) == ((a.perm \div 64) % 2) = 1

(***************************************************************************)
(* CircleRunner: the file trust check                                      *)
(***************************************************************************)

\* the message of the exception security_validation raises
ValidationFailed == "permission/ownership error: validation failed"

\* _check_file_permission comparing one trailing digit only (the others' bits)
CheckFilePermission_LastDigit(fsys, file_path, expected_permission) ==
  LET a == Stat(fsys, file_path)
      file_perm == Oct(StMode(a))
  IN  IF a.kind = "none"
      THEN [ret |-> FALSE, exc |-> Exc("FileNotFoundError", "stat", file_path),
            events |-> <<>>]
      ELSE IF ~EndsWith(file_perm, Tail(expected_permission))
      THEN [ret |-> FALSE, exc |-> NoExc,
            events |-> <<Ev("log_error", "file permission error", file_path)>>]
      ELSE [ret |-> TRUE, exc |-> NoExc, events |-> <<>>]

\* _check_file_permission: [ret, exc, events]
CheckFilePermission(fsys, file_path, expected_permission) ==
  LET a == Stat(fsys, file_path)
      file_perm == Oct(StMode(a))
  IN  IF a.kind = "none"
      THEN [ret |-> FALSE, exc |-> Exc("FileNotFoundError", "stat", file_path),
            events |-> <<>>]
      ELSE IF ~EndsWith(file_perm, expected_permission)
      THEN [ret |-> FALSE, exc |-> NoExc,
            events |-> <<Ev("log_error", "file permission error", file_path)>>]
      ELSE [ret |-> TRUE, exc |-> NoExc, events |-> <<>>]

\* _check_file_owner with the comparison lost: any owner in the database passes
CheckFileOwner_AnyOwner(fsys, file_path, owner) ==
  LET a == Stat(fsys, file_path)
  IN  IF a.kind = "none"
      THEN [ret |-> FALSE, exc |-> Exc("FileNotFoundError", "stat", file_path),
            events |-> <<>>]
      ELSE IF a.uid \notin DOMAIN Passwd
      THEN [ret |-> FALSE, exc |-> Exc("KeyError", "getpwuid", file_path),
            events |-> <<>>]
      ELSE [ret |-> TRUE, exc |-> NoExc, events |-> <<>>]

\* _check_file_owner: [ret, exc, events]
CheckFileOwner(fsys, file_path, owner) ==
  LET a == Stat(fsys, file_path)
  IN  IF a.kind = "none"
      THEN [ret |-> FALSE, exc |-> Exc("FileNotFoundError", "stat", file_path),
            events |-> <<>>]
      ELSE IF a.uid \notin DOMAIN Passwd
      THEN [ret |-> FALSE, exc |-> Exc("KeyError", "getpwuid", file_path),
            events |-> <<>>]
      ELSE IF Passwd[a.uid] # owner
      THEN [ret |-> FALSE, exc |-> NoExc,
            events |-> <<Ev("log_error", "script file is not owned by root", file_path)>>]
      ELSE [ret |-> TRUE, exc |-> NoExc, events |-> <<>>]

\* security_validation: [exc, events]; exc = NoExc when it returns
SecurityValidation(fsys, file_path) ==
  LET failed == Exc("Exception", ValidationFailed, file_path)
      fail == <<Ev("validate", file_path, "raise")>>
      own == CheckFileOwner(fsys, file_path, "root")
      perm == CheckFilePermission(fsys, file_path, <<"0", "0">>)
  IN  IF file_path = None \/ file_path = "" \/ ~IsFile(fsys, file_path)
      THEN [exc |-> failed,
            events |-> <<Ev("log_error", "script file doesn't exist", file_path)>> \o fail]
      ELSE IF own.exc # NoExc
      THEN [exc |-> own.exc, events |-> own.events \o fail]
      ELSE IF ~own.ret
      THEN [exc |-> failed, events |-> own.events \o fail]
      ELSE IF perm.exc # NoExc
      THEN [exc |-> perm.exc, events |-> perm.events \o fail]
      ELSE IF ~perm.ret
      THEN [exc |-> failed, events |-> perm.events \o fail]
      ELSE [exc |-> NoExc, events |-> <<Ev("validate", file_path, "ok")>>]

(***************************************************************************)
(* CircleRunner.load_config                                                *)
(***************************************************************************)

\* the names of environment variables and of ini options (case-sensitive)
EnvKeys == {"CERT_P12_FILE", "KEYCHAIN_FILE", "AWS_ACCESS_KEY_ID",
            "JOB_NAME", "BUILD_URL", "build_url"}

\* a fixed order of EnvKeys, for the history
KeyOrder == <<"CERT_P12_FILE", "KEYCHAIN_FILE", "AWS_ACCESS_KEY_ID",
              "JOB_NAME", "BUILD_URL", "build_url">>

\* configparser: the options of config[title] are the section's own and
\* those of DEFAULT; the section's value wins
SectionKeys(cfg, title) ==
  {k \in EnvKeys : cfg.sections[title][k] # None \/ cfg.sections["DEFAULT"][k] # None}

SectionValue(cfg, title, k) ==
  IF cfg.sections[title][k] # None THEN cfg.sections[title][k]
  ELSE cfg.sections["DEFAULT"][k]

\* load_config reading the file into the environment before it validates it
LoadConfig_ReadFirst(fsys, env, cfg, config_file, title_arg) ==
  LET v == SecurityValidation(fsys, config_file)
      title == IF title_arg = None \/ title_arg = "" THEN "DEFAULT" ELSE title_arg
      call == <<Ev("call", "load_config", config_file)>>
      keys == SelectSeq(KeyOrder, LAMBDA k : k \in SectionKeys(cfg, title))
      sets == [i \in 1..Len(keys) |->
                 Ev("setenv", keys[i], SectionValue(cfg, title, keys[i]))]
      written == [k \in EnvKeys |->
                    IF k \in SectionKeys(cfg, title)
                    THEN SectionValue(cfg, title, k) ELSE env[k]]
  IN  IF ~cfg.parses
      THEN [exc |-> Exc("ParsingError", "read", config_file), environ |-> env,
            events |-> call \o <<Ev("read_config", config_file, title),
                                 Ev("raise", "load_config", "ParsingError")>>]
      ELSE IF title \notin DOMAIN cfg.sections
      THEN [exc |-> Exc("KeyError", "section", title), environ |-> env,
            events |-> call \o <<Ev("read_config", config_file, title),
                                 Ev("raise", "load_config", "KeyError")>>]
      ELSE IF v.exc # NoExc
      THEN [exc |-> v.exc, environ |-> written,
            events |-> call \o <<Ev("read_config", config_file, title)>> \o sets
                       \o v.events \o <<Ev("raise", "load_config", v.exc.type)>>]
      ELSE [exc |-> NoExc, environ |-> written,
            events |-> call \o <<Ev("read_config", config_file, title)>> \o sets
                       \o v.events \o <<Ev("return", "load_config", config_file)>>]

\* load_config that keeps the value a name already has in os.environ
LoadConfig_SetDefault(fsys, env, cfg, config_file, title_arg) ==
  LET v == SecurityValidation(fsys, config_file)
      title == IF title_arg = None \/ title_arg = "" THEN "DEFAULT" ELSE title_arg
      call == <<Ev("call", "load_config", config_file)>>
      keys == SelectSeq(KeyOrder, LAMBDA k : k \in SectionKeys(cfg, title))
      sets == [i \in 1..Len(keys) |->
                 Ev("setenv", keys[i], SectionValue(cfg, title, keys[i]))]
  IN  IF v.exc # NoExc
      THEN [exc |-> v.exc, environ |-> env,
            events |-> call \o v.events \o <<Ev("raise", "load_config", v.exc.type)>>]
      ELSE IF ~cfg.parses
      THEN [exc |-> Exc("ParsingError", "read", config_file), environ |-> env,
            events |-> call \o v.events \o <<Ev("read_config", config_file, title),
                                             Ev("raise", "load_config", "ParsingError")>>]
      ELSE IF title \notin DOMAIN cfg.sections
      THEN [exc |-> Exc("KeyError", "section", title), environ |-> env,
            events |-> call \o v.events \o <<Ev("read_config", config_file, title),
                                             Ev("raise", "load_config", "KeyError")>>]
      ELSE [exc |-> NoExc,
            environ |-> [k \in EnvKeys |->
                          IF k \in SectionKeys(cfg, title) /\ env[k] = None
                          THEN SectionValue(cfg, title, k) ELSE env[k]],
            events |-> call \o v.events \o <<Ev("read_config", config_file, title)>>
                       \o sets \o <<Ev("return", "load_config", config_file)>>]

\* load_config: [exc, environ, events]
LoadConfig(fsys, env, cfg, config_file, title_arg) ==
  LET v == SecurityValidation(fsys, config_file)
      title == IF title_arg = None \/ title_arg = "" THEN "DEFAULT" ELSE title_arg
      call == <<Ev("call", "load_config", config_file)>>
      keys == SelectSeq(KeyOrder, LAMBDA k : k \in SectionKeys(cfg, title))
      sets == [i \in 1..Len(keys) |->
                 Ev("setenv", keys[i], SectionValue(cfg, title, keys[i]))]
  IN  IF v.exc # NoExc
      THEN [exc |-> v.exc, environ |-> env,
            events |-> call \o v.events \o <<Ev("raise", "load_config", v.exc.type)>>]
      ELSE IF ~cfg.parses
      THEN [exc |-> Exc("ParsingError", "read", config_file), environ |-> env,
            events |-> call \o v.events \o <<Ev("read_config", config_file, title),
                                             Ev("raise", "load_config", "ParsingError")>>]
      ELSE IF title \notin DOMAIN cfg.sections
      THEN [exc |-> Exc("KeyError", "section", title), environ |-> env,
            events |-> call \o v.events \o <<Ev("read_config", config_file, title),
                                             Ev("raise", "load_config", "KeyError")>>]
      ELSE [exc |-> NoExc,
            environ |-> [k \in EnvKeys |->
                          IF k \in SectionKeys(cfg, title)
                          THEN SectionValue(cfg, title, k) ELSE env[k]],
            events |-> call \o v.events \o <<Ev("read_config", config_file, title)>>
                       \o sets \o <<Ev("return", "load_config", config_file)>>]

(***************************************************************************)
(* CircleRunner.run_shell_script                                           *)
(***************************************************************************)

\* the keys a job_params blob may hold
ParamKeys == {"JOB_NAME", "ARTIFACTS_DIR", "S3_TARGET_PATH", "FILE_NAME", "build_url"}

\* str.upper on the keys of the model
Upper(k) ==
  IF k = "build_url" THEN "BUILD_URL"
  ELSE IF k = "a" THEN "A"
  ELSE IF k = "b" THEN "B"
  ELSE k

\* the names a child can see
ChildKeys == EnvKeys \cup {Upper(k) : k \in ParamKeys}

\* what a child process does: it cannot be created, or it exits
Children ==
  {[kind |-> "oserror", code |-> 0, stderr |-> ""]} \cup
  [kind : {"exit"}, code : 0..MaxExit, stderr : {"", "warning"}]

\* the order in which `for key in env` visits the keys of job_params
ParamOrder == <<"JOB_NAME", "ARTIFACTS_DIR", "S3_TARGET_PATH", "FILE_NAME", "build_url">>

\* os.environ.copy(): a mapping of its own, here over every name the loop
\* may add (a name that is absent reads None)
EnvCopy(env, over) ==
  [k \in DOMAIN env \cup {Upper(j) : j \in DOMAIN over} |->
     IF k \in DOMAIN env THEN env[k] ELSE None]

\* the loop with the key left as it is written
OverlayLoop_AsWritten(running_env, over, keys) ==
  LET RECURSIVE Loop(_, _)
      Loop(renv, ks) ==
        IF ks = <<>> THEN renv
        ELSE Loop([k \in DOMAIN renv |->
                     IF k = Head(ks) THEN over[Head(ks)] ELSE renv[k]], Tail(ks))
  IN  Loop(running_env, keys)

\* for key in env: running_env[key.upper()] = env[key]
OverlayLoop(running_env, over, keys) ==
  LET RECURSIVE Loop(_, _)
      Loop(renv, ks) ==
        IF ks = <<>> THEN renv
        ELSE Loop([renv EXCEPT ![Upper(Head(ks))] = over[Head(ks)]], Tail(ks))
  IN  Loop(running_env, keys)

\* running_env: os.environ.copy() overlaid with env, in the order `order`
\* of env's keys
Overlay(env, over, order) ==
  OverlayLoop(EnvCopy(env, over), over, SelectSeq(order, LAMBDA j : over[j] # None))

RunningEnv(env, over) == Overlay(env, over, ParamOrder)

\* subprocess.run(cmd, check=..., capture_output=True): [exc, returncode, stderr]
SubprocessRun(fsys, script_file, check, child) ==
  IF child.kind = "oserror" \/ ~OwnerExec(Stat(fsys, script_file))
  THEN [exc |-> Exc("OSError", "exec", script_file), returncode |-> 0, stderr |-> ""]
  ELSE IF check /\ child.code # 0
  THEN [exc |-> Exc("CalledProcessError", "non-zero exit status", script_file),
        returncode |-> child.code, stderr |-> child.stderr]
  ELSE [exc |-> NoExc, returncode |-> child.code, stderr |-> child.stderr]

\* does the exception have the attributes stdout and stderr
HasCapturedOutput(e) == e.type = "CalledProcessError"

\* what the history says of a subprocess.run
SpawnOutcome(r) ==
  IF r.exc.type = "OSError" THEN "oserror"
  ELSE IF r.returncode = 0 THEN "exit0" ELSE "exit-nonzero"

\* no environment: nothing was spawned
NoEnv == [k \in ChildKeys |-> None]

\* the no-override env= argument
NoParams == [k \in ParamKeys |-> None]

\* run_shell_script without its call of security_validation
RunShellScript_Unchecked(fsys, env, script_file, over, child) ==
  LET call == <<Ev("call", "run_shell_script", script_file)>>
      running_env == RunningEnv(env, over)
      r == SubprocessRun(fsys, script_file, TRUE, child)
      spawn == <<Ev("spawn", script_file, SpawnOutcome(r))>>
      handled == IF HasCapturedOutput(r.exc) THEN r.exc
                 ELSE Exc("AttributeError", "stdout", script_file)
      captured == <<Ev("stderr", script_file, r.stderr)>>
      logged == IF r.stderr # ""
                THEN <<Ev("log_error", "error executing", script_file)>> ELSE <<>>
  IN  IF r.exc # NoExc
      THEN [environ |-> env, over |-> over,
            exc |-> handled, running_env |-> running_env, spawned |-> TRUE,
            events |-> call \o spawn
                       \o <<Ev("raise", "run_shell_script", handled.type)>>]
      ELSE IF r.returncode # 0
      THEN [environ |-> env, over |-> over,
            exc |-> Exc("Exception", "command failed", script_file),
            running_env |-> running_env, spawned |-> TRUE,
            events |-> call \o spawn \o captured \o logged
                       \o <<Ev("raise", "run_shell_script", "Exception")>>]
      ELSE [environ |-> env, over |-> over,
            exc |-> NoExc, running_env |-> running_env, spawned |-> TRUE,
            events |-> call \o spawn \o captured \o logged
                       \o <<Ev("return", "run_shell_script", script_file)>>]

\* run_shell_script whose except block logs and returns instead of raising
RunShellScript_Swallow(fsys, env, script_file, over, child) ==
  LET v == SecurityValidation(fsys, script_file)
      call == <<Ev("call", "run_shell_script", script_file)>>
      running_env == RunningEnv(env, over)
      r == SubprocessRun(fsys, script_file, TRUE, child)
      spawn == <<Ev("spawn", script_file, SpawnOutcome(r))>>
      captured == IF r.exc = NoExc
                  THEN <<Ev("stderr", script_file, r.stderr)>> ELSE <<>>
      logged == IF r.stderr # "" /\ r.exc = NoExc
                THEN <<Ev("log_error", "error executing", script_file)>> ELSE <<>>
  IN  IF v.exc # NoExc
      THEN [environ |-> env, over |-> over,
            exc |-> v.exc, running_env |-> NoEnv, spawned |-> FALSE,
            events |-> call \o v.events
                       \o <<Ev("raise", "run_shell_script", v.exc.type)>>]
      ELSE [environ |-> env, over |-> over,
            exc |-> NoExc, running_env |-> running_env, spawned |-> TRUE,
            events |-> call \o v.events \o spawn \o captured \o logged
                       \o <<Ev("return", "run_shell_script", script_file)>>]

\* run_shell_script that overlays os.environ itself and not a copy of it
RunShellScript_NoCopy(fsys, env, script_file, over, child) ==
  LET v == SecurityValidation(fsys, script_file)
      call == <<Ev("call", "run_shell_script", script_file)>>
      running_env == RunningEnv(env, over)
      written == [k \in DOMAIN env |-> running_env[k]]
      r == SubprocessRun(fsys, script_file, TRUE, child)
      spawn == <<Ev("spawn", script_file, SpawnOutcome(r))>>
      \* the except block reads e.stdout before it re-raises e
      handled == IF HasCapturedOutput(r.exc) THEN r.exc
                 ELSE Exc("AttributeError", "stdout", script_file)
      \* result.stderr, the captured text the function goes on to read
      captured == <<Ev("stderr", script_file, r.stderr)>>
      logged == IF r.stderr # ""
                THEN <<Ev("log_error", "error executing", script_file)>> ELSE <<>>
  IN  IF v.exc # NoExc
      THEN [environ |-> env, over |-> over,
            exc |-> v.exc, running_env |-> NoEnv, spawned |-> FALSE,
            events |-> call \o v.events
                       \o <<Ev("raise", "run_shell_script", v.exc.type)>>]
      ELSE IF r.exc # NoExc
      THEN [environ |-> written, over |-> over,
            exc |-> handled, running_env |-> running_env, spawned |-> TRUE,
            events |-> call \o v.events \o spawn
                       \o <<Ev("raise", "run_shell_script", handled.type)>>]
      ELSE IF r.returncode # 0
      THEN [environ |-> written, over |-> over,
            exc |-> Exc("Exception", "command failed", script_file),
            running_env |-> running_env, spawned |-> TRUE,
            events |-> call \o v.events \o spawn \o captured \o logged
                       \o <<Ev("raise", "run_shell_script", "Exception")>>]
      ELSE [environ |-> written, over |-> over,
            exc |-> NoExc, running_env |-> running_env, spawned |-> TRUE,
            events |-> call \o v.events \o spawn \o captured \o logged
                       \o <<Ev("return", "run_shell_script", script_file)>>]

\* run_shell_script that raises when the script wrote to stderr
RunShellScript_StderrFails(fsys, env, script_file, over, child) ==
  LET v == SecurityValidation(fsys, script_file)
      call == <<Ev("call", "run_shell_script", script_file)>>
      running_env == RunningEnv(env, over)
      r == SubprocessRun(fsys, script_file, TRUE, child)
      spawn == <<Ev("spawn", script_file, SpawnOutcome(r))>>
      \* the except block reads e.stdout before it re-raises e
      handled == IF HasCapturedOutput(r.exc) THEN r.exc
                 ELSE Exc("AttributeError", "stdout", script_file)
      \* result.stderr, the captured text the function goes on to read
      captured == <<Ev("stderr", script_file, r.stderr)>>
      logged == IF r.stderr # ""
                THEN <<Ev("log_error", "error executing", script_file)>> ELSE <<>>
  IN  IF v.exc # NoExc
      THEN [environ |-> env, over |-> over,
            exc |-> v.exc, running_env |-> NoEnv, spawned |-> FALSE,
            events |-> call \o v.events
                       \o <<Ev("raise", "run_shell_script", v.exc.type)>>]
      ELSE IF r.exc # NoExc
      THEN [environ |-> env, over |-> over,
            exc |-> handled, running_env |-> running_env, spawned |-> TRUE,
            events |-> call \o v.events \o spawn
                       \o <<Ev("raise", "run_shell_script", handled.type)>>]
      ELSE IF r.returncode # 0 \/ r.stderr # ""
      THEN [environ |-> env, over |-> over,
            exc |-> Exc("Exception", "command failed", script_file),
            running_env |-> running_env, spawned |-> TRUE,
            events |-> call \o v.events \o spawn \o captured \o logged
                       \o <<Ev("raise", "run_shell_script", "Exception")>>]
      ELSE [environ |-> env, over |-> over,
            exc |-> NoExc, running_env |-> running_env, spawned |-> TRUE,
            events |-> call \o v.events \o spawn \o captured \o logged
                       \o <<Ev("return", "run_shell_script", script_file)>>]

\* run_shell_script: [exc, events, running_env, spawned, environ, over];
\* environ is os.environ and over the caller's env argument after the call
RunShellScript(fsys, env, script_file, over, child) ==
  LET v == SecurityValidation(fsys, script_file)
      call == <<Ev("call", "run_shell_script", script_file)>>
      running_env == RunningEnv(env, over)
      r == SubprocessRun(fsys, script_file, TRUE, child)
      spawn == <<Ev("spawn", script_file, SpawnOutcome(r))>>
      \* the except block reads e.stdout before it re-raises e
      handled == IF HasCapturedOutput(r.exc) THEN r.exc
                 ELSE Exc("AttributeError", "stdout", script_file)
      \* result.stderr, the captured text the function goes on to read
      captured == <<Ev("stderr", script_file, r.stderr)>>
      logged == IF r.stderr # ""
                THEN <<Ev("log_error", "error executing", script_file)>> ELSE <<>>
  IN  IF v.exc # NoExc
      THEN [environ |-> env, over |-> over,
            exc |-> v.exc, running_env |-> NoEnv, spawned |-> FALSE,
            events |-> call \o v.events
                       \o <<Ev("raise", "run_shell_script", v.exc.type)>>]
      ELSE IF r.exc # NoExc
      THEN [environ |-> env, over |-> over,
            exc |-> handled, running_env |-> running_env, spawned |-> TRUE,
            events |-> call \o v.events \o spawn
                       \o <<Ev("raise", "run_shell_script", handled.type)>>]
      ELSE IF r.returncode # 0
      THEN [environ |-> env, over |-> over,
            exc |-> Exc("Exception", "command failed", script_file),
            running_env |-> running_env, spawned |-> TRUE,
            events |-> call \o v.events \o spawn \o captured \o logged
                       \o <<Ev("raise", "run_shell_script", "Exception")>>]
      ELSE [environ |-> env, over |-> over,
            exc |-> NoExc, running_env |-> running_env, spawned |-> TRUE,
            events |-> call \o v.events \o spawn \o captured \o logged
                       \o <<Ev("return", "run_shell_script", script_file)>>]

(***************************************************************************)
(* MacCircleRunner                                                         *)
(***************************************************************************)

\* os.path.abspath(__file__)
RunnerFile == "/runner/src/macrunner.py"

\* __init__: the fixed paths
secret_file_path == "/var/root/vault/mac-code-signing.ini"
keychain_script == "/runner/src/scripts/mac/setup-keychain.sh"
codesign_script == "/runner/src/scripts/mac/code-sign.sh"
teardown_script == "/runner/src/scripts/mac/teardown.sh"

\* the files the ini file and the job parameters of the model name
CertFile == "/vault/cert.p12"
KeychainFile == "/vault/sign.keychain"
KeychainDb == "/vault/sign.keychain-db"
ArtifactsDir == "/tmp/art"
ArtifactA == "/tmp/art/a.zip"
ArtifactB == "/tmp/art/b.zip"

Paths == {RunnerFile, secret_file_path, keychain_script, codesign_script,
          teardown_script, CertFile, KeychainDb, ArtifactA, ArtifactB}

\* os.path.join of two components, the second relative
PathJoin(a, b) == IF a = "" THEN b ELSE a \o "/" \o b

\* os.path.basename
Basename(path) ==
  IF path = ArtifactA THEN "a.zip" ELSE IF path = ArtifactB THEN "b.zip" ELSE path

\* glob.glob: the existing paths the pattern matches
Glob(fsys, pattern) ==
  LET candidates == IF pattern = PathJoin(ArtifactsDir, "*.zip")
                    THEN {ArtifactA, ArtifactB}
                    ELSE {pattern} \cap {ArtifactA, ArtifactB}
  IN  {p \in candidates : Stat(fsys, p).kind # "none"}

\* the orders in which glob may list a set of matches
Orders(S) ==
  {f \in [1..Cardinality(S) -> S] : \A i, j \in 1..Cardinality(S) : f[i] = f[j] => i = j}

\* teardown as the base class has it: the teardown script is not run
MacTeardown_Base(fsys, env, script, child) ==
  [exc |-> NoExc, running_env |-> NoEnv, spawned |-> FALSE, environ |-> env,
   events |-> <<Ev("call", "teardown", script), Ev("return", "teardown", script)>>]

\* teardown: [exc, events, running_env, spawned, environ]
MacTeardown(fsys, env, script, child) ==
  LET r == RunShellScript(fsys, env, script, NoParams, child)
      call == <<Ev("call", "teardown", script)>>
  IN  IF script = None \/ script = ""
      THEN [exc |-> NoExc, running_env |-> NoEnv, spawned |-> FALSE,
            environ |-> env,
            events |-> call \o <<Ev("return", "teardown", script)>>]
      ELSE [exc |-> r.exc, running_env |-> r.running_env, spawned |-> r.spawned,
            environ |-> r.environ,
            events |-> call \o r.events
                       \o <<IF r.exc = NoExc THEN Ev("return", "teardown", script)
                            ELSE Ev("raise", "teardown", r.exc.type)>>]

\* upload_file_to_s3: [exc, environ, events, uploads]
UploadFileToS3(fsys, env, cfg, source_file_path, s3_path, outcome) ==
  LET base_name == Basename(source_file_path)
      c == LoadConfig(fsys, env, cfg, secret_file_path, "S3")
      call == <<Ev("call", "upload_file_to_s3", source_file_path)>>
      s3_target_path == PathJoin(s3_path, base_name)
      done(e, evs, ups) ==
        [exc |-> e, environ |-> c.environ, uploads |-> ups,
         events |-> call \o c.events \o evs
                    \o <<IF e = NoExc THEN Ev("return", "upload_file_to_s3", source_file_path)
                         ELSE Ev("raise", "upload_file_to_s3", e.type)>>]
  IN  IF c.exc # NoExc THEN done(c.exc, <<>>, <<>>)
      ELSE IF ~IsFile(fsys, source_file_path)
      THEN done(Exc("Exception", "upload to s3: invalid file", source_file_path), <<>>, <<>>)
      ELSE IF s3_path = None
      THEN done(Exc("TypeError", "join", "S3_TARGET_PATH"), <<>>, <<>>)
      ELSE IF outcome # "ok"
      THEN done(Exc("S3UploadFailedError", "upload_file", source_file_path),
                <<Ev("upload", source_file_path, "error")>>, <<>>)
      ELSE done(NoExc, <<Ev("upload", source_file_path, s3_target_path)>>,
                <<<<source_file_path, s3_target_path>>>>)

\* do_the_job validating the runner's own file before it looks at the job name
JobEntry_ValidateFirst(fsys, name, params) ==
  LET v == SecurityValidation(fsys, RunnerFile)
      artifact_dir == params["ARTIFACTS_DIR"]
      file_name == params["FILE_NAME"]
  IN  IF v.exc # NoExc
      THEN [exc |-> v.exc, events |-> v.events, next |-> "finally", matches |-> {}]
      ELSE IF name = None \/ name = ""
      THEN [exc |-> Exc("Exception", "undefined job name to execute", name),
            events |-> v.events, next |-> "finally", matches |-> {}]
      ELSE IF name = "MAC_CODE_SIGN"
      THEN [exc |-> NoExc, events |-> v.events, next |-> "sign_load_config",
            matches |-> {}]
      ELSE IF name = "S3_UPLOAD"
      THEN IF artifact_dir = None \/ file_name = None
           THEN [exc |-> Exc("TypeError", "join", "ARTIFACTS_DIR"),
                 events |-> v.events, next |-> "finally", matches |-> {}]
           ELSE [exc |-> NoExc,
                 events |-> v.events \o <<Ev("glob", PathJoin(artifact_dir, file_name), "")>>,
                 next |-> "upload",
                 matches |-> Glob(fsys, PathJoin(artifact_dir, file_name))]
      ELSE [exc |-> Exc("Exception", "unknown job to execute", name),
            events |-> v.events, next |-> "finally", matches |-> {}]

\* do_the_job up to its first call of sign or upload_file_to_s3:
\* [exc, events, next, matches]
JobEntry(fsys, name, params) ==
  LET v == SecurityValidation(fsys, RunnerFile)
      artifact_dir == params["ARTIFACTS_DIR"]
      file_name == params["FILE_NAME"]
  IN  IF name = None \/ name = ""
      THEN [exc |-> Exc("Exception", "undefined job name to execute", name),
            events |-> <<>>, next |-> "finally", matches |-> {}]
      ELSE IF name = "MAC_CODE_SIGN"
      THEN [exc |-> v.exc, events |-> v.events, next |-> "sign_load_config",
            matches |-> {}]
      ELSE IF name = "S3_UPLOAD"
      THEN IF artifact_dir = None \/ file_name = None
           THEN [exc |-> Exc("TypeError", "join", "ARTIFACTS_DIR"),
                 events |-> <<>>, next |-> "finally", matches |-> {}]
           ELSE [exc |-> NoExc,
                 events |-> <<Ev("glob", PathJoin(artifact_dir, file_name), "")>>,
                 next |-> "upload",
                 matches |-> Glob(fsys, PathJoin(artifact_dir, file_name))]
      ELSE [exc |-> Exc("Exception", "unknown job to execute", name),
            events |-> <<>>, next |-> "finally", matches |-> {}]

(***************************************************************************)
(* Inputs                                                                  *)
(***************************************************************************)

\* file attributes of the runs: a good script, and the ways a file is off
RootExec == [kind |-> "file", uid |-> 0, perm |-> 320]      \* root, 0500
RootNoExec == [kind |-> "file", uid |-> 0, perm |-> 256]    \* root, 0400
OtherExec == [kind |-> "file", uid |-> 501, perm |-> 320]   \* circleci, 0500
RootOpen == [kind |-> "file", uid |-> 0, perm |-> 493]      \* root, 0755
Directory == [kind |-> "dir", uid |-> 0, perm |-> 448]      \* root, 0700

\* the ways a file may be off: a script may lack its x bit, a glob match may
\* be a directory
FaultsOf(p) ==
  IF p \in {keychain_script, codesign_script, teardown_script}
  THEN {Missing, OtherExec, RootOpen, RootNoExec}
  ELSE IF p \in {ArtifactA, ArtifactB}
  THEN {Missing, Directory}
  ELSE {Missing, OtherExec, RootOpen}

\* the files a job can reach; the others are as shipped
Reach(params) ==
  IF params["JOB_NAME"] = "MAC_CODE_SIGN"
  THEN Paths \ {ArtifactA, ArtifactB}
  ELSE IF params["JOB_NAME"] = "S3_UPLOAD" /\ params["ARTIFACTS_DIR"] # None
  THEN {secret_file_path, teardown_script, ArtifactA, ArtifactB}
  ELSE {teardown_script}

\* the file systems a run of the job may start in: at most MaxBad files are off
FileSystems(params) ==
  UNION {{[p \in Paths |-> IF p \in S THEN g[p] ELSE RootExec]
           : g \in {h \in [S -> UNION {FaultsOf(p) : p \in S}]
                        : \A p \in S : h[p] \in FaultsOf(p)}}
         : S \in {T \in SUBSET Reach(params) : Cardinality(T) <= MaxBad}}

\* what the keychain script may leave at the keychain database
KeychainEffects == {RootNoExec, RootOpen}

NoOptions == [k \in EnvKeys |-> None]

\* an ini file: does configparser parse it, and its sections' options
Ini(sections) == [parses |-> TRUE, sections |-> sections]

\* the ini files of the runs; the last is one configparser refuses
Confs ==
  { Ini([s \in {"DEFAULT", "S3"} |->
           IF s = "DEFAULT"
           THEN [NoOptions EXCEPT !["CERT_P12_FILE"] = CertFile,
                                  !["KEYCHAIN_FILE"] = KeychainFile]
           ELSE [NoOptions EXCEPT !["AWS_ACCESS_KEY_ID"] = "AKIA-ini"]]),
    Ini([s \in {"DEFAULT"} |-> [NoOptions EXCEPT !["CERT_P12_FILE"] = CertFile]]),
    Ini([s \in {"DEFAULT", "S3"} |->
           IF s = "DEFAULT"
           THEN [NoOptions EXCEPT !["BUILD_URL"] = "url-ini"]
           ELSE [NoOptions EXCEPT !["AWS_ACCESS_KEY_ID"] = "AKIA-ini",
                                  !["KEYCHAIN_FILE"] = KeychainFile]]),
    [parses |-> FALSE, sections |-> [s \in {"DEFAULT"} |-> NoOptions]] }

\* the environments the runner may be started in
Environs ==
  { NoOptions,
    [NoOptions EXCEPT !["KEYCHAIN_FILE"] = KeychainFile,
                      !["AWS_ACCESS_KEY_ID"] = "AKIA-env",
                      !["build_url"] = "url-env"] }

\* the json blobs of argv[0]; a key that is absent reads None with .get
Jobs ==
  { [NoParams EXCEPT !["JOB_NAME"] = "MAC_CODE_SIGN", !["build_url"] = "url-arg"],
    [NoParams EXCEPT !["JOB_NAME"] = "S3_UPLOAD", !["ARTIFACTS_DIR"] = ArtifactsDir,
                     !["S3_TARGET_PATH"] = "builds/42", !["FILE_NAME"] = "*.zip"],
    [NoParams EXCEPT !["JOB_NAME"] = "S3_UPLOAD", !["ARTIFACTS_DIR"] = ArtifactsDir,
                     !["FILE_NAME"] = "a.zip"],
    [NoParams EXCEPT !["JOB_NAME"] = "S3_UPLOAD", !["S3_TARGET_PATH"] = "builds/42"],
    [NoParams EXCEPT !["JOB_NAME"] = "UNKNOWN"],
    [NoParams EXCEPT !["JOB_NAME"] = ""],
    NoParams }

\* the validation harness at rest
Idle == [done |-> FALSE, exc |-> NoExc, events |-> <<>>]
NoInput == [path |-> None, attr |-> Missing]

(***************************************************************************)
(* __main__                                                                *)
(***************************************************************************)

Init ==
  /\ pc = "start"
  /\ ms = FALSE
  /\ exc = NoExc
  /\ body_exc = NoExc
  /\ environ \in Environs
  /\ child_env = NoEnv
  /\ conf \in Confs
  /\ job_params \in Jobs
  /\ fs \in FileSystems(job_params)
  /\ job_name = job_params["JOB_NAME"]
  /\ files = <<>>
  /\ uploaded = <<>>
  /\ trace = <<>>
  /\ vin = NoInput
  /\ vout = Idle

inputs == <<conf, job_name, job_params, vin, vout>>

\* the job body goes on at `next`, or ends: with the exception e, or, after
\* its last step, normally
Continue(events, e, next) ==
  IF e # NoExc
  THEN /\ pc' = "finally"
       /\ exc' = e
       /\ body_exc' = e
       /\ trace' = trace \o events \o <<Ev("raise", "do_the_job", e.type)>>
  ELSE /\ pc' = next
       /\ UNCHANGED <<exc, body_exc>>
       /\ trace' = trace \o events
                    \o (IF next = "finally" THEN <<Ev("return", "do_the_job", "")>>
                        ELSE <<>>)

\* ms = MacCircleRunner(): logging.basicConfig opens runner.log for writing
Construct ==
  /\ pc = "start"
  /\ \E ok \in BOOLEAN :
       IF ok
       THEN /\ ms' = TRUE
            /\ pc' = "do_the_job"
            /\ trace' = trace \o <<Ev("return", "__init__", "")>>
            /\ UNCHANGED exc
       ELSE /\ ms' = FALSE
            /\ pc' = "finally"
            /\ exc' = Exc("OSError", "open", "runner.log")
            /\ trace' = trace \o <<Ev("raise", "__init__", "OSError")>>
  /\ UNCHANGED <<body_exc, environ, child_env, fs, files, uploaded>>
  /\ UNCHANGED inputs

\* do_the_job loading the DEFAULT secrets before it looks at the job
DoTheJob_LoadsFirst ==
  /\ pc = "do_the_job"
  /\ LET c == LoadConfig(fs, environ, conf, secret_file_path, "DEFAULT")
         r == JobEntry(fs, job_name, job_params)
     IN  /\ \E order \in Orders(r.matches) : files' = order
         /\ environ' = c.environ
         /\ Continue(<<Ev("call", "do_the_job", job_name)>> \o c.events \o r.events,
                     IF c.exc # NoExc THEN c.exc ELSE r.exc,
                     IF c.exc # NoExc THEN "finally" ELSE r.next)
  /\ UNCHANGED <<ms, child_env, fs, uploaded>>
  /\ UNCHANGED inputs

\* ms.do_the_job(job_name, job_params), to its first call of sign or upload
DoTheJob ==
  /\ pc = "do_the_job"
  /\ LET r == JobEntry(fs, job_name, job_params)
     IN  /\ \E order \in Orders(r.matches) : files' = order
         /\ Continue(<<Ev("call", "do_the_job", job_name)>> \o r.events, r.exc, r.next)
  /\ UNCHANGED <<ms, environ, child_env, fs, uploaded>>
  /\ UNCHANGED inputs

\* sign: self.load_config(self.secret_file_path, 'DEFAULT')
SignLoadConfig ==
  /\ pc = "sign_load_config"
  /\ LET r == LoadConfig(fs, environ, conf, secret_file_path, "DEFAULT")
     IN  /\ environ' = r.environ
         /\ Continue(<<Ev("call", "sign", "")>> \o r.events, r.exc, "sign_validate_cert")
  /\ UNCHANGED <<ms, child_env, fs, files, uploaded>>
  /\ UNCHANGED inputs

\* sign going on to the keychain script without looking at the certificate
SignValidateCert_Skip ==
  /\ pc = "sign_validate_cert"
  /\ Continue(<<>>, NoExc, "sign_run_keychain")
  /\ UNCHANGED <<ms, environ, child_env, fs, files, uploaded>>
  /\ UNCHANGED inputs

\* sign: self.security_validation(os.getenv('CERT_P12_FILE'))
SignValidateCert ==
  /\ pc = "sign_validate_cert"
  /\ LET v == SecurityValidation(fs, environ["CERT_P12_FILE"])
     IN  Continue(v.events, v.exc, "sign_run_keychain")
  /\ UNCHANGED <<ms, environ, child_env, fs, files, uploaded>>
  /\ UNCHANGED inputs

\* sign: self.run_shell_script(self.keychain_script); the script, when it
\* runs, may write the keychain database
SignRunKeychain ==
  /\ pc = "sign_run_keychain"
  /\ \E child \in Children :
       LET r == RunShellScript(fs, environ, keychain_script, NoParams, child)
           ran == r.spawned /\ r.exc.type # "AttributeError"
       IN  /\ IF r.spawned THEN child_env' = r.running_env ELSE UNCHANGED child_env
           /\ \E after \in {fs[KeychainDb]} \cup (IF ran THEN KeychainEffects ELSE {}) :
                fs' = [fs EXCEPT ![KeychainDb] = after]
           /\ environ' = r.environ
           /\ Continue(r.events, r.exc, "sign_validate_keychain")
  /\ UNCHANGED <<ms, files, uploaded>>
  /\ UNCHANGED inputs

\* sign: self.security_validation('-'.join([os.getenv('KEYCHAIN_FILE'), 'db']))
SignValidateKeychain ==
  /\ pc = "sign_validate_keychain"
  /\ LET keychain == environ["KEYCHAIN_FILE"]
         v == SecurityValidation(fs, keychain \o "-" \o "db")
     IN  IF keychain = None
         THEN Continue(<<>>, Exc("TypeError", "join", "KEYCHAIN_FILE"), "sign_run_codesign")
         ELSE Continue(v.events, v.exc, "sign_run_codesign")
  /\ UNCHANGED <<ms, environ, child_env, fs, files, uploaded>>
  /\ UNCHANGED inputs

\* sign: self.run_shell_script(script_file=self.codesign_script, env=sign_param, ...)
SignRunCodesign ==
  /\ pc = "sign_run_codesign"
  /\ \E child \in Children :
       LET r == RunShellScript(fs, environ, codesign_script, job_params, child)
       IN  /\ IF r.spawned THEN child_env' = r.running_env ELSE UNCHANGED child_env
           /\ environ' = r.environ
           /\ job_params' = r.over
           /\ Continue(r.events, r.exc, "finally")
  /\ UNCHANGED <<ms, fs, files, uploaded>>
  /\ UNCHANGED <<conf, job_name, vin, vout>>

\* the loop of do_the_job leaving after its first turn
UploadFile_FirstOnly ==
  /\ pc = "upload"
  /\ files # <<>>
  /\ \E outcome \in {"ok", "error"} :
       LET r == UploadFileToS3(fs, environ, conf, Head(files),
                               job_params["S3_TARGET_PATH"], outcome)
       IN  /\ environ' = r.environ
           /\ uploaded' = uploaded \o r.uploads
           /\ Continue(r.events, r.exc, "upload")
  /\ files' = <<>>
  /\ UNCHANGED <<ms, child_env, fs>>
  /\ UNCHANGED inputs

\* do_the_job: one turn of `for local_path in files`
UploadFile ==
  /\ pc = "upload"
  /\ files # <<>>
  /\ \E outcome \in {"ok", "error"} :
       LET r == UploadFileToS3(fs, environ, conf, Head(files),
                               job_params["S3_TARGET_PATH"], outcome)
       IN  /\ environ' = r.environ
           /\ uploaded' = uploaded \o r.uploads
           /\ Continue(r.events, r.exc, "upload")
  /\ files' = Tail(files)
  /\ UNCHANGED <<ms, child_env, fs>>
  /\ UNCHANGED inputs

\* do_the_job: the loop over files is over
UploadDone ==
  /\ pc = "upload"
  /\ files = <<>>
  /\ Continue(<<>>, NoExc, "finally")
  /\ UNCHANGED <<ms, environ, child_env, fs, files, uploaded>>
  /\ UNCHANGED inputs

\* finally: ms.teardown(); what it raises replaces the exception in flight
Teardown ==
  /\ pc = "finally"
  /\ pc' = "done"
  /\ IF ~ms
     THEN /\ exc' = Exc("NameError", "name is not defined", "ms")
          /\ trace' = trace \o <<Ev("raise", "finally", "NameError")>>
          /\ UNCHANGED <<child_env, environ>>
     ELSE \E child \in Children :
            LET r == MacTeardown(fs, environ, teardown_script, child)
            IN  /\ exc' = IF r.exc # NoExc THEN r.exc ELSE exc
                /\ trace' = trace \o r.events
                /\ environ' = r.environ
                /\ IF r.spawned THEN child_env' = r.running_env ELSE UNCHANGED child_env
  /\ UNCHANGED <<ms, body_exc, fs, files, uploaded>>
  /\ UNCHANGED inputs

Next ==
  \/ Construct
  \/ DoTheJob
  \/ SignLoadConfig
  \/ SignValidateCert
  \/ SignRunKeychain
  \/ SignValidateKeychain
  \/ SignRunCodesign
  \/ UploadFile
  \/ UploadDone
  \/ Teardown

Spec == Init /\ [][Next]_vars

(***************************************************************************)
(* security_validation on its own: every path and file of the bounds       *)
(***************************************************************************)

HarnessFile == "/f"

HarnessPaths == {None, "", HarnessFile, "/absent"}

HarnessAttrs == [kind : {"none", "dir", "file"}, uid : {0, 501, 999}, perm : 0..MaxPerm]

HarnessFs(attr) == (HarnessFile :> attr)

InitValidation ==
  /\ pc = "harness"
  /\ ms = FALSE
  /\ exc = NoExc
  /\ body_exc = NoExc
  /\ environ = NoOptions
  /\ child_env = NoEnv
  /\ fs = [p \in Paths |-> RootExec]
  /\ conf = Ini([s \in {"DEFAULT"} |-> NoOptions])
  /\ job_params = NoParams
  /\ job_name = None
  /\ files = <<>>
  /\ uploaded = <<>>
  /\ trace = <<>>
  /\ vin \in [path : HarnessPaths, attr : HarnessAttrs]
  /\ vout = Idle

\* self.security_validation(vin.path)
Validate ==
  /\ pc = "harness"
  /\ ~vout.done
  /\ LET v == SecurityValidation(HarnessFs(vin.attr), vin.path)
     IN  vout' = [done |-> TRUE, exc |-> v.exc, events |-> v.events]
  /\ UNCHANGED <<pc, ms, exc, body_exc, environ, child_env, fs, conf, job_name,
                 job_params, files, uploaded, trace, vin>>

NextValidation == Validate

SpecValidation == InitValidation /\ [][NextValidation]_vars

(***************************************************************************)
(* The environment overlay of run_shell_script on its own: every ambient   *)
(* environment and env argument over a few names, two of which upper-case  *)
(* to the same name                                                        *)
(***************************************************************************)

OverlayNames == {"A", "B", "b"}

OverlayAmbients == [OverlayNames -> {None, "1", "3"}]

OverlayArgs == [OverlayNames -> {None, "2", "4"}]

InitOverlay ==
  /\ pc = "overlay"
  /\ ms = FALSE
  /\ exc = NoExc
  /\ body_exc = NoExc
  /\ environ = NoOptions
  /\ child_env = NoEnv
  /\ fs = [p \in Paths |-> RootExec]
  /\ conf = Ini([s \in {"DEFAULT"} |-> NoOptions])
  /\ job_params = NoParams
  /\ job_name = None
  /\ files = <<>>
  /\ uploaded = <<>>
  /\ trace = <<>>
  /\ vin \in [ambient : OverlayAmbients, over : OverlayArgs, order : Orders(OverlayNames)]
  /\ vout = [done |-> FALSE, running_env |-> vin.ambient]

\* running_env = os.environ.copy(); for key in env: running_env[key.upper()] = env[key]
BuildRunningEnv ==
  /\ pc = "overlay"
  /\ ~vout.done
  /\ vout' = [done |-> TRUE, running_env |-> Overlay(vin.ambient, vin.over, vin.order)]
  /\ UNCHANGED <<pc, ms, exc, body_exc, environ, child_env, fs, conf, job_name,
                 job_params, files, uploaded, trace, vin>>

NextOverlay == BuildRunningEnv

SpecOverlay == InitOverlay /\ [][NextOverlay]_vars

(***************************************************************************)
(* load_config on its own: any sequence of loads of the sections of one    *)
(* ini file                                                                *)
(***************************************************************************)

MaxLoads == 3

\* the ini files of the runs and one whose sections hold the same option
LoadConfs ==
  Confs \cup
  { Ini([s \in {"DEFAULT", "S3"} |->
           IF s = "DEFAULT"
           THEN [NoOptions EXCEPT !["CERT_P12_FILE"] = CertFile,
                                  !["BUILD_URL"] = "url-ini"]
           ELSE [NoOptions EXCEPT !["AWS_ACCESS_KEY_ID"] = "AKIA-ini",
                                  !["BUILD_URL"] = "url-s3"]]) }

LoadTitles == {None, "DEFAULT", "S3"}

InitLoads ==
  /\ pc = "loads"
  /\ ms = FALSE
  /\ exc = NoExc
  /\ body_exc = NoExc
  /\ environ \in Environs
  /\ child_env = NoEnv
  /\ fs \in {[p \in Paths |-> IF p = secret_file_path THEN a ELSE RootExec] :
               a \in {RootExec, OtherExec}}
  /\ conf \in LoadConfs
  /\ job_params = NoParams
  /\ job_name = None
  /\ files = <<>>
  /\ uploaded = <<>>
  /\ trace = <<>>
  /\ vin = [environ |-> environ]
  /\ vout = Idle

\* self.load_config(self.secret_file_path, title)
Load ==
  /\ pc = "loads"
  /\ Cardinality({i \in 1..Len(trace) : trace[i] = Ev("call", "load_config", secret_file_path)})
       < MaxLoads
  /\ \E title \in LoadTitles :
       LET r == LoadConfig(fs, environ, conf, secret_file_path, title)
       IN  /\ environ' = r.environ
           /\ exc' = r.exc
           /\ trace' = trace \o r.events
  /\ UNCHANGED <<pc, ms, body_exc, child_env, fs, conf, job_name, job_params,
                 files, uploaded, vin, vout>>

NextLoads == Load

SpecLoads == InitLoads /\ [][NextLoads]_vars

(***************************************************************************)
(* Reading the history                                                     *)
(***************************************************************************)

Idx == 1..Len(trace)

Count(e) == Cardinality({i \in Idx : trace[i] = e})

Spawns(p) == {i \in Idx : trace[i].op = "spawn" /\ trace[i].a = p}

\* the file passes the trust check as the documentation states it
TrustedAttr(a) ==
  /\ a.kind = "file"
  /\ a.uid \in DOMAIN Passwd
  /\ Passwd[a.uid] = "root"
  /\ (a.perm \div 8) % 8 = 0
  /\ a.perm % 8 = 0

\* a regular file whose owner is in the database and is not root
UntrustedOwner(a) ==
  a.kind = "file" /\ a.uid \in DOMAIN Passwd /\ Passwd[a.uid] # "root"

\* the job body is over: the finally clause is reached or done
BodyOver == ms /\ pc \in {"finally", "done"}

(***************************************************************************)
(* C1  Trust gate.  A child process is spawned for a script path only      *)
(* right after security_validation of that path succeeded in the same      *)
(* call of run_shell_script, for a file that passes the trust check; a     *)
(* validation that fails is followed by a raise, never by a spawn.         *)
(***************************************************************************)
TrustGate ==
  \A i \in Idx :
    /\ trace[i].op = "spawn" =>
         /\ i >= 3
         /\ trace[i - 1] = Ev("validate", trace[i].a, "ok")
         /\ trace[i - 2] = Ev("call", "run_shell_script", trace[i].a)
         /\ TrustedAttr(Stat(fs, trace[i].a))
    /\ (trace[i].op = "validate" /\ trace[i].b = "raise") =>
         /\ i < Len(trace)
         /\ trace[i + 1].op = "raise"
         /\ Spawns(trace[i].a) = {}

\* a finished run in which the code-sign script and the teardown script were
\* both spawned
TrustGateWitness ==
  /\ pc = "done"
  /\ Spawns(codesign_script) # {}
  /\ Spawns(teardown_script) # {}

FirstFailing(path, a) ==
  IF path \in {None, ""} \/ path # HarnessFile \/ a.kind # "file" THEN "NotFound"
  ELSE IF ~(a.uid \in DOMAIN Passwd /\ Passwd[a.uid] = "root") THEN "UntrustedOwner"
  ELSE IF ~TrustedAttr(a) THEN "UnsafePermissions"
  ELSE "none"

SpecificErrorKind ==
  (vout.done /\ vout.exc # NoExc) =>
    \A b \in {Missing, OtherExec, RootOpen} :
      FirstFailing(vin.path, b) # FirstFailing(vin.path, vin.attr)
        => SecurityValidation(HarnessFs(b), vin.path).exc # vout.exc

(***************************************************************************)
(* C4  Teardown exactly once.                                              *)
(***************************************************************************)

TeardownCalls == {i \in Idx : trace[i] = Ev("call", "teardown", teardown_script)}

BodyEnds == {i \in Idx : trace[i].op \in {"return", "raise"} /\ trace[i].a = "do_the_job"}

\* an entry of the history that teardown makes
OfTeardown(e) ==
  \/ e.a = teardown_script
  \/ e.b = teardown_script
  \/ e.op \in {"return", "raise"} /\ e.a \in {"teardown", "run_shell_script"}

\* C4 as claimed: in every dispatch that is over, teardown was entered once,
\* after the job body, the teardown script was invoked exactly once, and no
\* step of the job body came after
TeardownScriptExactlyOnce ==
  (ms /\ pc = "done") =>
    /\ Cardinality(TeardownCalls) = 1
    /\ Cardinality(Spawns(teardown_script)) = 1
    /\ \A t \in TeardownCalls :
         /\ \E b \in BodyEnds : b < t
         /\ \A j \in Idx : j > t => OfTeardown(trace[j])

\* C4 amended: teardown is entered exactly once, after the job body has
\* ended and never before; it validates the teardown script exactly once
\* and invokes it once if that validation passes and not at all if it
\* fails; no step of the job body comes after
TeardownExactlyOnce ==
  /\ (pc # "done") => TeardownCalls = {}
  /\ (ms /\ pc \in {"finally", "done"}) => Cardinality(BodyEnds) = 1
  /\ (ms /\ pc = "done") =>
       /\ Cardinality(TeardownCalls) = 1
       /\ \A t \in TeardownCalls :
            /\ \A b \in BodyEnds : b < t
            /\ \A j \in Idx : j > t => OfTeardown(trace[j])
            /\ \A j \in Idx : (trace[j].op = "call" /\ trace[j].a = "do_the_job") => j < t
       /\ Count(Ev("validate", teardown_script, "ok"))
            + Count(Ev("validate", teardown_script, "raise")) = 1
       /\ Cardinality(Spawns(teardown_script))
            = Count(Ev("validate", teardown_script, "ok"))

\* a dispatch whose job body failed and whose teardown script failed validation
TeardownExactlyOnceWitness ==
  /\ ms /\ pc = "done"
  /\ body_exc # NoExc
  /\ Count(Ev("validate", teardown_script, "raise")) = 1
  /\ Spawns(teardown_script) = {}

(***************************************************************************)
(* C5  Original error preserved: when the job body fails with E, the error *)
(* reported after teardown is E, also when teardown fails.                 *)
(***************************************************************************)
OriginalErrorReported ==
  (ms /\ pc = "done" /\ body_exc # NoExc) => exc = body_exc

(***************************************************************************)
(* C6  An untrusted owner of a signing script.                             *)
(***************************************************************************)

JobBodySpawns ==
  {i \in Idx : trace[i].op = "spawn" /\ \A t \in TeardownCalls : i < t}

\* the spawn of entry i made a child process
Created(i) == trace[i].b # "oserror"

\* C6 as claimed, for a dispatch whose earlier steps pass (sign gets as far
\* as the keychain script): with the keychain script or the code-sign script
\* owned by a non-trusted principal, no child process is made in the job
\* body, neither script is run, and the job body fails (which error it
\* fails with is C3's subject and is left open here)
UntrustedSigningScript ==
  ( /\ job_name = "MAC_CODE_SIGN"
    /\ UntrustedOwner(fs[keychain_script]) \/ UntrustedOwner(fs[codesign_script])
    /\ Count(Ev("call", "run_shell_script", keychain_script)) = 1 ) =>
    /\ \A i \in JobBodySpawns : ~Created(i)
    /\ \A i \in Spawns(keychain_script) \cup Spawns(codesign_script) : ~Created(i)
    /\ BodyOver => body_exc # NoExc

\* C6 amended: each script is validated when it is used.  With the keychain
\* script owned by a non-trusted principal the job body spawns nothing,
\* invokes neither script and fails; with the code-sign script owned by a
\* non-trusted principal the code-sign script is never invoked and the job
\* body fails, but the keychain script may have been spawned before.  The
\* failure is the validation error on the untrusted script, logged as an
\* ownership error, whenever the job body gets as far as that script.
RefusedForOwner(script) ==
  Count(Ev("call", "run_shell_script", script)) = 1 =>
    /\ body_exc = Exc("Exception", ValidationFailed, script)
    /\ Count(Ev("log_error", "script file is not owned by root", script)) = 1

UntrustedSigningScriptAtUse ==
  job_name = "MAC_CODE_SIGN" =>
    /\ UntrustedOwner(fs[keychain_script]) =>
         /\ JobBodySpawns = {}
         /\ Spawns(keychain_script) = {} /\ Spawns(codesign_script) = {}
         /\ BodyOver => body_exc # NoExc
         /\ RefusedForOwner(keychain_script)
    /\ UntrustedOwner(fs[codesign_script]) =>
         /\ Spawns(codesign_script) = {}
         /\ BodyOver => body_exc # NoExc
         /\ RefusedForOwner(codesign_script)

\* the keychain script ran before the untrusted code-sign script was refused
UntrustedSigningScriptAtUseWitness ==
  /\ job_name = "MAC_CODE_SIGN"
  /\ UntrustedOwner(fs[codesign_script])
  /\ pc = "done"
  /\ Spawns(keychain_script) # {}
  /\ body_exc = Exc("Exception", ValidationFailed, codesign_script)

(***************************************************************************)
(* C7  run_shell_script fails whenever the validated script's child exits  *)
(* with a non-zero status; it returns normally only after an exit status   *)
(* of 0, and a failure of run_shell_script ends the job body.              *)
(***************************************************************************)

\* the entry that ends the call of run_shell_script entry i belongs to
EndOfRun(i) ==
  LET ends == {j \in Idx : /\ j > i
                           /\ trace[j].op \in {"return", "raise"}
                           /\ trace[j].a = "run_shell_script"}
  IN  CHOOSE j \in ends : \A k \in ends : j <= k

SpawnErrorPropagated ==
  \A i \in Idx :
    (trace[i].op = "spawn" /\ trace[i].b = "oserror") =>
      trace[i + 1] = Ev("raise", "run_shell_script", "OSError")

(***************************************************************************)
(* C9  load_config validates the config file before it reads it: the file  *)
(* is read and keys are written only right after a successful validation   *)
(* of that file in the same call, and a step in which the validation of    *)
(* the config file fails raises and leaves the environment as it was.      *)
(***************************************************************************)

\* what a step adds to the history
Added == SubSeq(trace', Len(trace) + 1, Len(trace'))

ConfigValidatedFirst ==
  [][ LET new == Added
      IN  /\ \A i \in 1..Len(new) :
               /\ new[i].op = "read_config" =>
                    /\ i >= 3
                    /\ new[i - 1] = Ev("validate", new[i].a, "ok")
                    /\ new[i - 2] = Ev("call", "load_config", new[i].a)
                    /\ TrustedAttr(Stat(fs, new[i].a))
               /\ new[i].op = "setenv" =>
                    /\ i >= 2
                    /\ new[i - 1].op \in {"read_config", "setenv"}
          /\ \A k \in EnvKeys :
               environ'[k] # environ[k] =>
                 \E i \in 1..Len(new) : new[i] = Ev("setenv", k, environ'[k])
          /\ (\E i \in 1..Len(new) : new[i] = Ev("validate", secret_file_path, "raise")) =>
               /\ environ' = environ
               /\ exc' # NoExc
               /\ \A i \in 1..Len(new) : new[i].op \notin {"read_config", "setenv"}
    ]_vars

\* load_config raised on a config file that is not root's
ConfigValidatedFirstWitness ==
  /\ ~TrustedAttr(fs[secret_file_path])
  /\ \E i \in Idx : trace[i] = Ev("raise", "load_config", "Exception")
  /\ \E k \in EnvKeys : SectionValue(conf, "DEFAULT", k) # environ[k]

(***************************************************************************)
(* C10  A dispatch with a missing, empty or unknown job name raises in     *)
(* do_the_job before anything else is done: nothing is validated, loaded,  *)
(* spawned or uploaded, and the environment and the files are unchanged.   *)
(***************************************************************************)
BadJobNameNoEffect ==
  [][ (pc = "do_the_job" /\ job_name \notin {"MAC_CODE_SIGN", "S3_UPLOAD"}) =>
        /\ pc' = "finally"
        /\ exc' = Exc("Exception",
                       IF job_name \in {None, ""} THEN "undefined job name to execute"
                       ELSE "unknown job to execute", job_name)
        /\ body_exc' = exc'
        /\ Added = <<Ev("call", "do_the_job", job_name),
                      Ev("raise", "do_the_job", "Exception")>>
        /\ environ' = environ
        /\ child_env' = child_env
        /\ fs' = fs
        /\ uploaded' = uploaded
        /\ files' = <<>>
    ]_vars

\* an unknown job name was refused
BadJobNameNoEffectWitness ==
  /\ job_name = "UNKNOWN"
  /\ pc = "finally"
  /\ body_exc = Exc("Exception", "unknown job to execute", "UNKNOWN")
  /\ trace[Len(trace)] = Ev("raise", "do_the_job", "Exception")


(***************************************************************************)
(* C11 - C19                                                               *)
(***************************************************************************)

\* the keys of the env argument that upper-case to k
Overriding(over, k) == {j \in DOMAIN over : over[j] # None /\ Upper(j) = k}

\* the position of key j in the order the loop visits the keys
PositionIn(order, j) == CHOOSE i \in DOMAIN order : order[i] = j

\* C11: the child environment maps every name k to the value of an env key
\* that upper-cases to k when there is one (the one the loop visits last when
\* there are several), and to the ambient value of k otherwise; ambient
\* {A: 1} and env {b: 2} give {A: 1, B: 2}.
EnvironmentOverlay ==
  (pc = "overlay" /\ vout.done) =>
    /\ DOMAIN vout.running_env = OverlayNames
    /\ \A k \in OverlayNames :
         LET J == Overriding(vin.over, k)
         IN  IF J # {}
             THEN /\ \E j \in J : vout.running_env[k] = vin.over[j]
                  /\ \A j \in J :
                       (\A h \in J : PositionIn(vin.order, h) <= PositionIn(vin.order, j))
                         => vout.running_env[k] = vin.over[j]
             ELSE vout.running_env[k] = vin.ambient[k]

\* C11 witness: ambient {A: 1}, env {b: 2}, child {A: 1, B: 2}
EnvironmentOverlayWitness ==
  /\ pc = "overlay"
  /\ vout.done
  /\ vin.ambient = [k \in OverlayNames |-> IF k = "A" THEN "1" ELSE None]
  /\ vin.over = [k \in OverlayNames |-> IF k = "b" THEN "2" ELSE None]
  /\ vout.running_env = [k \in OverlayNames |->
                           IF k = "A" THEN "1" ELSE IF k = "B" THEN "2" ELSE None]

\* C12: a step that calls run_shell_script, however the call ends, leaves
\* os.environ and the env argument as they were; what the env argument
\* overrides is in the child's environment only.
RunLeavesEnvironment ==
  [][ (\E i \in DOMAIN Added : Added[i].op = "call" /\ Added[i].a = "run_shell_script") =>
        /\ environ' = environ
        /\ job_params' = job_params
        /\ \A i \in DOMAIN Added :
             (Added[i].op = "spawn" /\ Added[i].a = codesign_script) =>
               \A j \in ParamKeys :
                 job_params[j] # None => child_env'[Upper(j)] = job_params[j]
    ]_vars

\* C12 witness: the code-sign script exited non-zero with BUILD_URL from the
\* job parameters in its environment, and os.environ does not have that value
RunLeavesEnvironmentWitness ==
  /\ \E i \in Idx : trace[i] = Ev("spawn", codesign_script, "exit-nonzero")
  /\ pc = "finally"
  /\ job_params["build_url"] = "url-arg"
  /\ child_env["BUILD_URL"] = "url-arg"
  /\ environ["BUILD_URL"] # "url-arg"
  /\ environ["JOB_NAME"] = None

\* the event that ends the load whose read of the file is trace[i]
LoadEnd(i) ==
  CHOOSE j \in Idx :
    /\ j > i
    /\ trace[j].a = "load_config"
    /\ \A h \in Idx : (i < h /\ h < j) => trace[h].a # "load_config"

\* the loads that returned normally, each by the position of its read
SuccessfulLoads == {i \in Idx : trace[i].op = "read_config" /\ trace[LoadEnd(i)].op = "return"}

\* the successful loads of a section that defines option k itself
LoadsDefining(k) == {i \in SuccessfulLoads : conf.sections[trace[i].b][k] # None}

Latest(S) == CHOOSE i \in S : \A j \in S : j <= i

\* C13: after any sequence of loads, a name that a successfully loaded
\* section defines has the value of the last such section in os.environ,
\* whatever it had before; a name no section of the file defines, though it
\* differs from a defined one by case only, keeps the value it started with.
LastLoadedWins ==
  pc = "loads" =>
    \A k \in EnvKeys :
      IF LoadsDefining(k) # {}
      THEN environ[k] = conf.sections[trace[Latest(LoadsDefining(k))].b][k]
      ELSE (\A t \in DOMAIN conf.sections : conf.sections[t][k] = None)
             => environ[k] = vin.environ[k]

\* C13 witness: DEFAULT, then S3, were loaded from a file whose two sections
\* define BUILD_URL; the S3 values are in os.environ, AWS_ACCESS_KEY_ID over
\* the one of the start, and build_url is as it was
LastLoadedWinsWitness ==
  /\ pc = "loads"
  /\ \E i, j \in SuccessfulLoads : i < j /\ trace[i].b = "DEFAULT" /\ trace[j].b = "S3"
                                         /\ \A h \in SuccessfulLoads : h <= j
  /\ conf.sections["DEFAULT"]["BUILD_URL"] = "url-ini"
  /\ environ["BUILD_URL"] = "url-s3"
  /\ vin.environ["AWS_ACCESS_KEY_ID"] = "AKIA-env"
  /\ environ["AWS_ACCESS_KEY_ID"] = "AKIA-ini"
  /\ environ["build_url"] = "url-env"

\* C14: a load of section S changes os.environ on the names S itself defines
\* and on no other: a name only another section of the file defines (one of
\* DEFAULT when S is S3) keeps the value it had, or stays absent.
LoadTouchesNamedSectionOnly ==
  [][ \A i \in DOMAIN Added :
        (Added[i].op = "read_config" /\ Added[i].b \in DOMAIN conf.sections) =>
          \A k \in EnvKeys :
            conf.sections[Added[i].b][k] = None => environ'[k] = environ[k]
    ]_vars

\* the history entries of calls of s3.upload_file
UploadCalls == {i \in Idx : trace[i].op = "upload"}

\* the pattern do_the_job hands to glob, once it has done so
GlobPattern == job_params["ARTIFACTS_DIR"] \o "/" \o job_params["FILE_NAME"]

Globbed == BodyOver /\ job_name = "S3_UPLOAD" /\ Ev("glob", GlobPattern, "") \in {trace[i] : i \in Idx}

\* C15: when the job body of an S3_UPLOAD dispatch returns normally, there is
\* exactly one upload call for each path the glob matched, with the key
\* S3_TARGET_PATH/<its basename>, and none for any other path, and the bucket
\* got exactly these; with no match there is no upload call, the job body
\* returns normally, and so does the dispatch when teardown does.
UploadsExactlyTheMatches ==
  Globbed =>
    LET matches == Glob(fs, GlobPattern)
        key(p) == job_params["S3_TARGET_PATH"] \o "/" \o Basename(p)
    IN  /\ body_exc = NoExc =>
             /\ \A p \in matches :
                  /\ Cardinality({i \in UploadCalls : trace[i].a = p}) = 1
                  /\ \A i \in UploadCalls : trace[i].a = p => trace[i].b = key(p)
             /\ \A i \in UploadCalls : trace[i].a \in matches
             /\ Len(uploaded) = Cardinality(matches)
             /\ \A p \in matches : \E n \in DOMAIN uploaded : uploaded[n] = <<p, key(p)>>
        /\ matches = {} =>
             /\ body_exc = NoExc
             /\ UploadCalls = {}
             /\ uploaded = <<>>
             /\ (pc = "done" /\ trace[Len(trace)].op = "return") => exc = NoExc

\* C15 witness: *.zip matched two files, each was uploaded under builds/42,
\* and the dispatch is over without an error
UploadsExactlyTheMatchesWitness ==
  /\ Globbed
  /\ pc = "done"
  /\ exc = NoExc
  /\ Glob(fs, GlobPattern) = {ArtifactA, ArtifactB}
  /\ Len(uploaded) = 2
  /\ \E n \in DOMAIN uploaded : uploaded[n] = <<ArtifactB, "builds/42/b.zip">>

\* C15 witness of the empty case: the glob matched nothing and the dispatch
\* is over without an upload and without an error
NoMatchNoUpload ==
  /\ Globbed
  /\ pc = "done"
  /\ exc = NoExc
  /\ Glob(fs, GlobPattern) = {}


\* entry i is a step that failed: a validation that raised, a child that was
\* not created or exited non-zero, an exception on its way up
Failed(i) ==
  \/ trace[i].op = "raise"
  \/ trace[i].op = "validate" /\ trace[i].b = "raise"
  \/ trace[i].op = "spawn" /\ trace[i].b # "exit0"

\* the first position after n of entry e in the history, past the end of
\* the history when there is none
FirstAfter(e, n) ==
  LET at == {h \in Idx : h > n /\ trace[h] = e}
  IN  IF at = {} THEN Len(trace) + 1 ELSE CHOOSE h \in at : \A g \in at : h <= g

\* the length of the history of the job body: what precedes the call of
\* teardown
JobBodyLen ==
  LET t == FirstAfter(Ev("call", "teardown", teardown_script), 0)
  IN  IF \E i \in Idx : trace[i] = Ev("raise", "finally", "NameError")
      THEN Len(trace) - 1 ELSE t - 1

\* where the last of `events` is when they are in the history after n in
\* this order, past the end of the history when they are not
RECURSIVE InOrderAfter(_, _)
InOrderAfter(events, n) ==
  IF events = <<>> THEN n ELSE InOrderAfter(Tail(events), FirstAfter(Head(events), n))

\* C16: in a MAC_CODE_SIGN dispatch a spawn of the code-sign script comes
\* after, in this order: the runner's own file passed validation, the secrets
\* file passed validation and its DEFAULT section was loaded, the path in
\* CERT_P12_FILE passed validation, the keychain script was spawned, exited 0
\* and its run returned, the path KEYCHAIN_FILE-db passed validation; and
\* once a step of the job body has failed nothing follows in the job body but
\* the exception on its way up.
SignPipelineOrder ==
  job_name = "MAC_CODE_SIGN" =>
    /\ \A i \in Idx :
         (trace[i].op = "spawn" /\ trace[i].a = codesign_script) =>
           InOrderAfter(<<Ev("validate", RunnerFile, "ok"),
                          Ev("validate", secret_file_path, "ok"),
                          Ev("read_config", secret_file_path, "DEFAULT"),
                          Ev("return", "load_config", secret_file_path),
                          Ev("validate", environ["CERT_P12_FILE"], "ok"),
                          Ev("spawn", keychain_script, "exit0"),
                          Ev("return", "run_shell_script", keychain_script),
                          Ev("validate", environ["KEYCHAIN_FILE"] \o "-db", "ok")>>, 0) < i
    /\ \A i \in 1..(JobBodyLen - 1) : Failed(i) => Failed(i + 1) /\ trace[i + 1].op = "raise"

\* C16 witness: the code-sign script was spawned and exited 0, and the
\* dispatch is over without an error
SignPipelineOrderWitness ==
  /\ job_name = "MAC_CODE_SIGN"
  /\ pc = "done"
  /\ exc = NoExc
  /\ \E i \in Idx : trace[i] = Ev("spawn", codesign_script, "exit0")

\* the history entries where upload_file_to_s3 raised
FailedUploads == {i \in Idx : trace[i].op = "raise" /\ trace[i].a = "upload_file_to_s3"}

\* C17, inside the job body: once upload_file_to_s3 has raised for one file
\* it is not called for a later one, the uploads made before are still in the
\* bucket, and its exception is the one do_the_job raises.
UploadAbortsInJobBody ==
  (job_name = "S3_UPLOAD" /\ BodyOver) =>
    \A j \in FailedUploads :
      /\ \A h \in Idx : h > j => trace[h].op # "upload" /\ trace[h].a # "upload_file_to_s3"
      /\ \A h \in UploadCalls :
           trace[h].b # "error" => \E n \in DOMAIN uploaded : uploaded[n] = <<trace[h].a, trace[h].b>>
      /\ trace[j + 1] = Ev("raise", "do_the_job", trace[j].b)
      /\ body_exc.type = trace[j].b

\* C17: an S3_UPLOAD dispatch in which the upload of one file failed makes no
\* upload for a later file, keeps the uploads it made, and ends with that
\* failure as its result.
UploadAbortsOnFirstFailure ==
  /\ UploadAbortsInJobBody
  /\ (job_name = "S3_UPLOAD" /\ pc = "done" /\ FailedUploads # {}) => exc = body_exc

\* the history entries where a script that exited 0 had written to stderr
StderrAtExit0 == {i \in Idx : trace[i].op = "stderr" /\ trace[i].b # ""}

\* C18: when a validated script exited 0 and wrote to stderr, run_shell_script
\* logs an error and returns normally, and the caller goes on: sign to the
\* validation of the keychain database, do_the_job and teardown to their
\* return; no run fails for its stderr alone: a run whose child exited 0
\* reads the captured stderr and returns.
StderrAloneNeverFails ==
  /\ \A i \in StderrAtExit0 :
       /\ trace[i - 2] = Ev("validate", trace[i].a, "ok")
       /\ trace[i - 1] = Ev("spawn", trace[i].a, "exit0")
       /\ trace[i + 1] = Ev("log_error", "error executing", trace[i].a)
       /\ trace[i + 2] = Ev("return", "run_shell_script", trace[i].a)
       /\ (trace[i].a = keychain_script /\ i + 2 = Len(trace)) =>
            pc = "sign_validate_keychain" /\ body_exc = NoExc
       /\ trace[i].a = codesign_script =>
            trace[i + 3] = Ev("return", "do_the_job", "") /\ body_exc = NoExc
       /\ trace[i].a = teardown_script =>
            trace[i + 3] = Ev("return", "teardown", teardown_script) /\ exc = body_exc
  /\ \A i \in Idx :
       (trace[i].op = "spawn" /\ trace[i].b = "exit0") =>
         /\ trace[i + 1].op = "stderr"
         /\ trace[EndOfRun(i)].op = "return"

\* C18 witness: the keychain script and the code-sign script both exited 0
\* with text on stderr, and the dispatch is over without an error
StderrAloneNeverFailsWitness ==
  /\ pc = "done"
  /\ exc = NoExc
  /\ \E i, j \in StderrAtExit0 : trace[i].a = keychain_script /\ trace[j].a = codesign_script

\* the history entries where load_config is called, and where it reads
LoadCalls == {i \in Idx : trace[i].op = "call" /\ trace[i].a = "load_config"}

ConfigReads == {i \in Idx : trace[i].op = "read_config"}

\* where the loads are in the history: in a MAC_CODE_SIGN dispatch one at
\* most, of DEFAULT, first thing in sign, before any validation but that of
\* the runner's file, and no other validation of the job body without it; in
\* an S3_UPLOAD dispatch one per call of upload_file_to_s3, of S3, first thing
\* in that call, at most one for a matched path and none for another path,
\* and before the upload of that path; in any other dispatch none
LoadsInPlace ==
  /\ job_name = "MAC_CODE_SIGN" =>
       /\ Cardinality(LoadCalls) <= 1
       /\ \A i \in ConfigReads : trace[i].b = "DEFAULT"
       /\ \A i \in LoadCalls :
            /\ trace[i - 1] = Ev("call", "sign", "")
            /\ \A h \in 1..i : trace[h].op = "validate" => trace[h].a = RunnerFile
       /\ \A h \in 1..JobBodyLen :
            (trace[h].op = "validate" /\ trace[h].a \notin {RunnerFile, secret_file_path}) =>
              \E i \in LoadCalls : i < h /\ trace[LoadEnd(i)].op = "return" /\ LoadEnd(i) < h
  /\ job_name = "S3_UPLOAD" =>
       /\ \A i \in ConfigReads : trace[i].b = "S3"
       /\ \A i \in LoadCalls :
            /\ trace[i - 1].op = "call"
            /\ trace[i - 1].a = "upload_file_to_s3"
            /\ trace[i - 1].b \in Glob(fs, GlobPattern)
            /\ \A j \in LoadCalls : trace[j - 1] = trace[i - 1] => j = i
       /\ \A h \in UploadCalls :
            \E i \in LoadCalls : /\ trace[i - 1] = Ev("call", "upload_file_to_s3", trace[h].a)
                                 /\ LoadEnd(i) = h - 1
                                 /\ trace[h - 1].op = "return"
       /\ (Globbed /\ Glob(fs, GlobPattern) = {}) => LoadCalls = {}
  /\ job_name \notin {"MAC_CODE_SIGN", "S3_UPLOAD"} => LoadCalls = {} /\ ConfigReads = {}

\* C19: the secrets file is loaded, and os.environ changes, only in the step
\* of MAC_CODE_SIGN that opens sign and in the steps of S3_UPLOAD that upload
\* a matched file, with the loads placed in every dispatch as LoadsInPlace
\* says; an S3_UPLOAD that matched nothing and a dispatch of an unknown or
\* missing job make no load and leave os.environ as it was.
SecretsLoadedOnlyForUse ==
  [][ /\ LoadsInPlace'
      /\ (environ' # environ \/ \E i \in DOMAIN Added : Added[i].a = "load_config") =>
           \/ job_name = "MAC_CODE_SIGN" /\ pc = "sign_load_config"
           \/ job_name = "S3_UPLOAD" /\ pc = "upload" /\ files # <<>>
                /\ Head(files) \in Glob(fs, GlobPattern)
    ]_vars

\* C19 witness: two matched files were uploaded, each after a load of S3 of
\* its own that put the key of the ini file into os.environ
SecretsLoadedOnlyForUseWitness ==
  /\ job_name = "S3_UPLOAD"
  /\ pc = "done"
  /\ Cardinality(LoadCalls) = 2
  /\ Cardinality(UploadCalls) = 2
  /\ environ["AWS_ACCESS_KEY_ID"] = "AKIA-ini"

====
